---- MODULE Spec2Model ----
(***************************************************************************)
(* A model of app.py: the catalog matcher (find_mapping_row), the variant  *)
(* grouper (group_by_color_and_size), the stock resolvers                  *)
(* (process_stock_rts_alternative / process_stock_mto_alternative), the    *)
(* placeholder substitution passes and the batch loop of main().           *)
(*                                                                         *)
(* Text is modelled as a sequence of one-character strings, so that        *)
(* normalisation, splitting, prefix tests, regular-expression token        *)
(* matching and sorting are computed character by character as the Python  *)
(* code computes them.  A missing spreadsheet cell (pandas NaN) is the     *)
(* one-element sequence NaN.                                               *)
(***************************************************************************)
EXTENDS Integers, Sequences, FiniteSets, TLC

VARIABLES
    varenumre,          \* main: the item codes pasted by the operator, in order
    mapping_df,         \* main: the catalog, a sequence of rows (column -> cell)
    stock_df,           \* main: the stock table
    template_copy,      \* main: the copy of the template slide
    slides,             \* prs.slides: the generated deck
    missing_items,      \* main: item codes without a catalog match
    processed,          \* number of items whose loop body has completed
    pc,                 \* position of main: "loop", "images" (about to call
                        \* replace_image_placeholders_parallel), "fetch" (inside its
                        \* executor block), "done", "aborted" (an exception left main)
    placeholder_texts,  \* main: the dict composed for the current item
    image_vals,         \* main: image placeholder -> URL ("" for none)
    futures,            \* replace_image_placeholders_parallel: the submitted fetches
    results,            \* replace_image_placeholders_parallel: the results dict
    cache,              \* st.cache_data of fetch_and_process_image_cached: URL -> result
    call,               \* arguments of the function under call (pure-function specifications)
    ret,                \* its return value and the locals the claims speak about
    fn_pc               \* "call" before the function ran, "returned" after, "idle" in main

fn_vars == <<call, ret, fn_pc>>

main_vars == <<varenumre, mapping_df, stock_df, template_copy, slides, missing_items, processed, pc,
               placeholder_texts, image_vals, futures, results, cache>>

vars == <<main_vars, fn_vars>>

\* the variables of main while a single function is under call
MainIdle ==
    /\ varenumre = <<>>
    /\ mapping_df = <<>>
    /\ stock_df = <<>>
    /\ template_copy = [shapes |-> <<>>, pictures |-> <<>>]
    /\ slides = <<>>
    /\ missing_items = <<>>
    /\ processed = 0
    /\ pc = "idle"
    /\ placeholder_texts = <<>>
    /\ image_vals = <<>>
    /\ futures = <<>>
    /\ results = <<>>
    /\ cache = <<>>

\* the variables of the pure-function specifications while main runs
FnIdle == call = [fn |-> "main"] /\ ret = <<>> /\ fn_pc = "idle"

(***************************************************************************)
(* Characters                                                              *)
(***************************************************************************)
\* the non-breaking space U+00A0, the letter o-slash U+00F8, and the control
\* characters that TLA+ strings cannot spell, each as one character
NBSP == "<nbsp>"
OSLASH == "<oslash>"
BEL == "<bel>"
BS == "<bs>"
VT == "<vt>"
NUL == "<nul>"
BACKTICK == "<backtick>"

\* the printable ASCII characters in code-point order, U+0020 .. U+007E
Ascii == <<" ","!","\"","#","$","%","&","'","(",")","*","+",",","-",".","/","0","1","2","3","4","5","6","7","8","9",":",";","<","=",">","?","@","A","B","C","D","E","F","G","H","I","J","K","L","M","N","O","P","Q","R","S","T","U","V","W","X","Y","Z","[","\\","]","^","_",BACKTICK,"a","b","c","d","e","f","g","h","i","j","k","l","m","n","o","p","q","r","s","t","u","v","w","x","y","z","{","|","}","~">>

AsciiIndex == [c \in {Ascii[i] : i \in 1..Len(Ascii)} |-> CHOOSE i \in 1..Len(Ascii) : Ascii[i] = c]

\* ord(c)
CodePoint(c) ==
    CASE c = NUL -> 0
      [] c = BEL -> 7
      [] c = BS -> 8
      [] c = "\t" -> 9
      [] c = "\n" -> 10
      [] c = VT -> 11
      [] c = "\f" -> 12
      [] c = "\r" -> 13
      [] c = NBSP -> 160
      [] c = OSLASH -> 248
      [] OTHER -> 31 + AsciiIndex[c]

\* str.isspace() and the regular expression class \s on str patterns
IsSpace(c) == c \in {" ", "\t", "\n", "\r", "\f", VT, NBSP}

IsUpper(c) == CodePoint(c) \in 65..90
IsAsciiLetter(c) == CodePoint(c) \in (65..90) \cup (97..122)
IsDigit(c) == CodePoint(c) \in 48..57

\* one character of str.lower()
LowerChar(c) == IF IsUpper(c) THEN Ascii[AsciiIndex[c] + 32] ELSE c

(***************************************************************************)
(* Python str operations                                                   *)
(***************************************************************************)
NaN == <<"<NaN>">>

\* pd.isna(v)
isna(v) == v = NaN

\* str(v): a missing cell prints as "nan"
str(v) == IF isna(v) THEN <<"n","a","n">> ELSE v

lower(s) == [i \in 1..Len(s) |-> LowerChar(s[i])]

\* s.replace(a, b) for one-character a and b
replace_char(s, a, b) == [i \in 1..Len(s) |-> IF s[i] = a THEN b ELSE s[i]]

RECURSIVE lstrip(_)
lstrip(s) == IF s # <<>> /\ IsSpace(Head(s)) THEN lstrip(Tail(s)) ELSE s

RECURSIVE rstrip(_)
rstrip(s) == IF s # <<>> /\ IsSpace(s[Len(s)]) THEN rstrip(SubSeq(s, 1, Len(s) - 1)) ELSE s

\* s.strip()
strip(s) == rstrip(lstrip(s))

\* s.startswith(p)
startswith(s, p) == Len(p) <= Len(s) /\ SubSeq(s, 1, Len(p)) = p

RECURSIVE find(_, _, _)
\* s.find(sub, from) with 1-based positions: the least position >= from at
\* which sub occurs in s, 0 when there is none
find(s, sub, from) ==
    IF from + Len(sub) - 1 > Len(s) THEN 0
    ELSE IF SubSeq(s, from, from + Len(sub) - 1) = sub THEN from
    ELSE find(s, sub, from + 1)

\* sub in s
contains(s, sub) == find(s, sub, 1) # 0

RECURSIVE split(_, _)
\* s.split(sep), sep non-empty
split(s, sep) ==
    LET i == find(s, sep, 1)
    IN  IF i = 0 THEN <<s>>
        ELSE <<SubSeq(s, 1, i - 1)>> \o split(SubSeq(s, i + Len(sep), Len(s)), sep)

RECURSIVE join(_, _)
\* sep.join(parts)
join(parts, sep) ==
    IF parts = <<>> THEN <<>>
    ELSE IF Len(parts) = 1 THEN parts[1]
    ELSE parts[1] \o sep \o join(Tail(parts), sep)

RECURSIVE StrLess(_, _)
\* a < b on str: lexicographic by code point
StrLess(a, b) ==
    IF b = <<>> THEN FALSE
    ELSE IF a = <<>> THEN TRUE
    ELSE IF Head(a) = Head(b) THEN StrLess(Tail(a), Tail(b))
    ELSE CodePoint(Head(a)) < CodePoint(Head(b))

RECURSIVE insert_sorted(_, _)
insert_sorted(x, seq) ==
    IF seq = <<>> THEN <<x>>
    ELSE IF StrLess(x, Head(seq)) THEN <<x>> \o seq
    ELSE <<Head(seq)>> \o insert_sorted(x, Tail(seq))

RECURSIVE sorted(_)
\* sorted(list of str)
sorted(seq) == IF seq = <<>> THEN <<>> ELSE insert_sorted(seq[Len(seq)], sorted(SubSeq(seq, 1, Len(seq) - 1)))

\* row.get(key, default) on a row / dict
get(row, key, default) == IF key \in DOMAIN row THEN row[key] ELSE default

\* all sequences over S of length lo..hi
SeqsOf(S, lo, hi) == UNION {[1..n -> S] : n \in lo..hi}

(***************************************************************************)
(* The constant tables of app.py                                           *)
(***************************************************************************)
\* '{{Product name}}'
PH_ProductName == <<"{","{","P","r","o","d","u","c","t"," ","n","a","m","e","}","}">>
\* 'Product Name:'
LBL_ProductName == <<"P","r","o","d","u","c","t"," ","N","a","m","e",":">>
\* '{{Product code}}'
PH_ProductCode == <<"{","{","P","r","o","d","u","c","t"," ","c","o","d","e","}","}">>
\* 'Product Code:'
LBL_ProductCode == <<"P","r","o","d","u","c","t"," ","C","o","d","e",":">>
\* '{{Product country of origin}}'
PH_ProductCountry == <<"{","{","P","r","o","d","u","c","t"," ","c","o","u","n","t","r","y"," ","o","f"," ","o","r","i","g","i","n","}","}">>
\* 'Country of origin:'
LBL_ProductCountry == <<"C","o","u","n","t","r","y"," ","o","f"," ","o","r","i","g","i","n",":">>
\* '{{Product height}}'
PH_ProductHeight == <<"{","{","P","r","o","d","u","c","t"," ","h","e","i","g","h","t","}","}">>
\* 'Height:'
LBL_ProductHeight == <<"H","e","i","g","h","t",":">>
\* '{{Product width}}'
PH_ProductWidth == <<"{","{","P","r","o","d","u","c","t"," ","w","i","d","t","h","}","}">>
\* 'Width:'
LBL_ProductWidth == <<"W","i","d","t","h",":">>
\* '{{Product length}}'
PH_ProductLength == <<"{","{","P","r","o","d","u","c","t"," ","l","e","n","g","t","h","}","}">>
\* 'Length:'
LBL_ProductLength == <<"L","e","n","g","t","h",":">>
\* '{{Product depth}}'
PH_ProductDepth == <<"{","{","P","r","o","d","u","c","t"," ","d","e","p","t","h","}","}">>
\* 'Depth:'
LBL_ProductDepth == <<"D","e","p","t","h",":">>
\* '{{Product seat height}}'
PH_ProductSeatHeight == <<"{","{","P","r","o","d","u","c","t"," ","s","e","a","t"," ","h","e","i","g","h","t","}","}">>
\* 'Seat Height:'
LBL_ProductSeatHeight == <<"S","e","a","t"," ","H","e","i","g","h","t",":">>
\* '{{Product diameter}}'
PH_ProductDiameter == <<"{","{","P","r","o","d","u","c","t"," ","d","i","a","m","e","t","e","r","}","}">>
\* 'Diameter:'
LBL_ProductDiameter == <<"D","i","a","m","e","t","e","r",":">>
\* '{{CertificateName}}'
PH_CertificateName == <<"{","{","C","e","r","t","i","f","i","c","a","t","e","N","a","m","e","}","}">>
\* 'Test & certificates for the product:'
LBL_CertificateName == <<"T","e","s","t"," ","&"," ","c","e","r","t","i","f","i","c","a","t","e","s"," ","f","o","r"," ","t","h","e"," ","p","r","o","d","u","c","t",":">>
\* '{{Product Consumption COM}}'
PH_ProductConsumptionCOM == <<"{","{","P","r","o","d","u","c","t"," ","C","o","n","s","u","m","p","t","i","o","n"," ","C","O","M","}","}">>
\* 'Consumption information for COM:'
LBL_ProductConsumptionCOM == <<"C","o","n","s","u","m","p","t","i","o","n"," ","i","n","f","o","r","m","a","t","i","o","n"," ","f","o","r"," ","C","O","M",":">>
\* '{{Product Fact Sheet link}}'
PH_FactSheetLink == <<"{","{","P","r","o","d","u","c","t"," ","F","a","c","t"," ","S","h","e","e","t"," ","l","i","n","k","}","}">>
\* 'Download Product Fact Sheet'
DISP_FactSheetLink == <<"D","o","w","n","l","o","a","d"," ","P","r","o","d","u","c","t"," ","F","a","c","t"," ","S","h","e","e","t">>
\* '{{Product configurator link}}'
PH_ConfiguratorLink == <<"{","{","P","r","o","d","u","c","t"," ","c","o","n","f","i","g","u","r","a","t","o","r"," ","l","i","n","k","}","}">>
\* 'Click to configure product'
DISP_ConfiguratorLink == <<"C","l","i","c","k"," ","t","o"," ","c","o","n","f","i","g","u","r","e"," ","p","r","o","d","u","c","t">>
\* '{{Product Packshot1}}'
PH_Packshot1 == <<"{","{","P","r","o","d","u","c","t"," ","P","a","c","k","s","h","o","t","1","}","}">>
\* '{{Product Lifestyle1}}'
PH_Lifestyle1 == <<"{","{","P","r","o","d","u","c","t"," ","L","i","f","e","s","t","y","l","e","1","}","}">>
\* '{{Product Lifestyle2}}'
PH_Lifestyle2 == <<"{","{","P","r","o","d","u","c","t"," ","L","i","f","e","s","t","y","l","e","2","}","}">>
\* '{{Product Lifestyle3}}'
PH_Lifestyle3 == <<"{","{","P","r","o","d","u","c","t"," ","L","i","f","e","s","t","y","l","e","3","}","}">>
\* '{{Product Lifestyle4}}'
PH_Lifestyle4 == <<"{","{","P","r","o","d","u","c","t"," ","L","i","f","e","s","t","y","l","e","4","}","}">>
\* '{{Product RTS}}'
PH_RTS == <<"{","{","P","r","o","d","u","c","t"," ","R","T","S","}","}">>
\* '{{Product MTO}}'
PH_MTO == <<"{","{","P","r","o","d","u","c","t"," ","M","T","O","}","}">>
\* 'Product in stock versions:\n\n'
RTS_HEADING == <<"P","r","o","d","u","c","t"," ","i","n"," ","s","t","o","c","k"," ","v","e","r","s","i","o","n","s",":","\n","\n">>
\* 'Avilable for made to order:\n\n'
MTO_HEADING == <<"A","v","i","l","a","b","l","e"," ","f","o","r"," ","m","a","d","e"," ","t","o"," ","o","r","d","e","r",":","\n","\n">>
\* 'productkey'
COL_productkey == <<"p","r","o","d","u","c","t","k","e","y">>
\* 'variantname'
COL_variantname == <<"v","a","r","i","a","n","t","n","a","m","e">>
\* 'rts'
COL_rts == <<"r","t","s">>
\* 'mto'
COL_mto == <<"m","t","o">>
\* 'Black Linoleum'
SURF_BlackLinoleum == <<"B","l","a","c","k"," ","L","i","n","o","l","e","u","m">>
\* 'Grey Linoleum'
SURF_GreyLinoleum == <<"G","r","e","y"," ","L","i","n","o","l","e","u","m">>
\* 'Oak Lacquered Oak Veneer'
SURF_OakLacquered == <<"O","a","k"," ","L","a","c","q","u","e","r","e","d"," ","O","a","k"," ","V","e","n","e","e","r">>
\* 'Oak Oiled Oak'
SURF_OakOiledOak == <<"O","a","k"," ","O","i","l","e","d"," ","O","a","k">>
\* 'Sand Laminate'
SURF_SandLaminate == <<"S","a","n","d"," ","L","a","m","i","n","a","t","e">>
\* 'Smoked Oak Oiled Oak'
SURF_SmokedOak == <<"S","m","o","k","e","d"," ","O","a","k"," ","O","i","l","e","d"," ","O","a","k">>
\* 'White Laminate'
SURF_WhiteLaminate == <<"W","h","i","t","e"," ","L","a","m","i","n","a","t","e">>
\* 'Black'
LEG_Black == <<"B","l","a","c","k">>
\* 'Grey'
LEG_Grey == <<"G","r","e","y">>
\* 'Sand'
LEG_Sand == <<"S","a","n","d">>
\* 'White'
LEG_White == <<"W","h","i","t","e">>
\* '170 x 85 cm / 67 x 33.5"'
SIZE_170 == <<"1","7","0"," ","x"," ","8","5"," ","c","m"," ","/"," ","6","7"," ","x"," ","3","3",".","5","\"">>
\* '225 x 90 cm / 88.5 x 35.5"'
SIZE_225 == <<"2","2","5"," ","x"," ","9","0"," ","c","m"," ","/"," ","8","8",".","5"," ","x"," ","3","5",".","5","\"">>
\* '255 x 108 cm / 100.5 x 42.5"'
SIZE_255 == <<"2","5","5"," ","x"," ","1","0","8"," ","c","m"," ","/"," ","1","0","0",".","5"," ","x"," ","4","2",".","5","\"">>
\* '295 x 108 cm / 116 x 42.5"'
SIZE_295 == <<"2","9","5"," ","x"," ","1","0","8"," ","c","m"," ","/"," ","1","1","6"," ","x"," ","4","2",".","5","\"">>
\* 'Benfarver: '
STR_Benfarver == <<"B","e","n","f","a","r","v","e","r",":"," ">>
\* '\nSt<oslash>rrelser: '
STR_Stoerrelser == <<"\n","S","t",OSLASH,"r","r","e","l","s","e","r",":"," ">>
\* 'nan'
STR_nan == <<"n","a","n">>

\* TEXT_PLACEHOLDERS_ORIG, in declaration (dict iteration) order
TEXT_PLACEHOLDERS_ORIG ==
    << [ph |-> PH_ProductName, label |-> LBL_ProductName],
       [ph |-> PH_ProductCode, label |-> LBL_ProductCode],
       [ph |-> PH_ProductCountry, label |-> LBL_ProductCountry],
       [ph |-> PH_ProductHeight, label |-> LBL_ProductHeight],
       [ph |-> PH_ProductWidth, label |-> LBL_ProductWidth],
       [ph |-> PH_ProductLength, label |-> LBL_ProductLength],
       [ph |-> PH_ProductDepth, label |-> LBL_ProductDepth],
       [ph |-> PH_ProductSeatHeight, label |-> LBL_ProductSeatHeight],
       [ph |-> PH_ProductDiameter, label |-> LBL_ProductDiameter],
       [ph |-> PH_CertificateName, label |-> LBL_CertificateName],
       [ph |-> PH_ProductConsumptionCOM, label |-> LBL_ProductConsumptionCOM] >>

HYPERLINK_PLACEHOLDERS_ORIG ==
    << [ph |-> PH_FactSheetLink, display_text |-> DISP_FactSheetLink],
       [ph |-> PH_ConfiguratorLink, display_text |-> DISP_ConfiguratorLink] >>

IMAGE_PLACEHOLDERS_ORIG ==
    << PH_Packshot1, PH_Lifestyle1, PH_Lifestyle2, PH_Lifestyle3, PH_Lifestyle4 >>

(***************************************************************************)
(* TextNormalizer and CatalogMatcher                                       *)
(***************************************************************************)
\* re.sub(r"\s+", "", str(s).replace("\u00A0", " ")).lower()
normalize_text(s) ==
    lower(SelectSeq(replace_char(str(s), NBSP, " "), LAMBDA c : ~IsSpace(c)))

normalize_col(col) == normalize_text(col)

RECURSIVE scan_exact(_, _, _, _)
\* the first loop of find_mapping_row, from row i on: the index of the first row
\* whose key normalizes to norm_item, 0 when the loop falls through
scan_exact(df, mapping_prod_key, norm_item, i) ==
    IF i > Len(df) THEN 0
    ELSE IF normalize_text(get(df[i], mapping_prod_key, <<>>)) = norm_item THEN i
    ELSE scan_exact(df, mapping_prod_key, norm_item, i + 1)

RECURSIVE scan_prefix(_, _, _, _)
\* the second loop of find_mapping_row, from row i on
scan_prefix(df, mapping_prod_key, partial, i) ==
    IF i > Len(df) THEN 0
    ELSE IF startswith(normalize_text(get(df[i], mapping_prod_key, <<>>)), partial) THEN i
    ELSE scan_prefix(df, mapping_prod_key, partial, i + 1)

\* a plausible slip: the prefix loop tried before the exact loop
find_mapping_row_prefix_first(item_no, df, mapping_prod_key) ==
    LET pre == IF contains(str(item_no), <<"-">>)
               THEN scan_prefix(df, mapping_prod_key,
                                normalize_text(split(item_no, <<"-">>)[1]), 1)
               ELSE 0
    IN  IF pre # 0 THEN pre
        ELSE scan_exact(df, mapping_prod_key, normalize_text(item_no), 1)

\* a plausible slip: the prefix is taken before the last hyphen, not the first
find_mapping_row_last_hyphen(item_no, df, mapping_prod_key) ==
    LET exact == scan_exact(df, mapping_prod_key, normalize_text(item_no), 1)
        parts == split(item_no, <<"-">>)
    IN  IF exact # 0 THEN exact
        ELSE IF contains(str(item_no), <<"-">>)
             THEN scan_prefix(df, mapping_prod_key,
                              normalize_text(join(SubSeq(parts, 1, Len(parts) - 1), <<"-">>)), 1)
             ELSE 0

\* find_mapping_row: the matched row as its 1-based index in df, 0 for None
find_mapping_row(item_no, df, mapping_prod_key) ==
    LET exact == scan_exact(df, mapping_prod_key, normalize_text(item_no), 1)
    IN  IF exact # 0 THEN exact
        ELSE IF contains(str(item_no), <<"-">>)
             THEN scan_prefix(df, mapping_prod_key,
                              normalize_text(split(item_no, <<"-">>)[1]), 1)
             ELSE 0

MAPPING_PRODUCT_CODE_KEY == normalize_col(PH_ProductCode)

(***************************************************************************)
(* Specification SpecMatch: find_mapping_row on every item code and        *)
(* catalog within the bounds.                                              *)
(***************************************************************************)
MaxCodeLen == 3
MaxCat == 2

\* the characters item codes are drawn from: a digit, a letter in both cases,
\* the hyphen and a space
CodeAlphabet == {"1", "a", "A", "-", " "}

ItemCodes == SeqsOf(CodeAlphabet, 0, MaxCodeLen)

\* the product codes catalog rows are drawn from: "1", "11", "1a", "1 A", "1-a", "a"
\* and a missing cell
CatalogCodes ==
    { <<"1">>, <<"1","1">>, <<"1","a">>, <<"1"," ","A">>, <<"1","-","a">>, <<"a">>, NaN }

CatalogRows == { (MAPPING_PRODUCT_CODE_KEY :> c) : c \in CatalogCodes }

MatchInit ==
    /\ call \in [fn : {"find_mapping_row"}, item_no : ItemCodes,
                 mapping_df : SeqsOf(CatalogRows, 0, MaxCat)]
    /\ ret = 0
    /\ fn_pc = "call"
    /\ MainIdle

CallFindMappingRow ==
    /\ fn_pc = "call"
    /\ call.fn = "find_mapping_row"
    /\ ret' = find_mapping_row(call.item_no, call.mapping_df, MAPPING_PRODUCT_CODE_KEY)
    /\ fn_pc' = "returned"
    /\ UNCHANGED call
    /\ UNCHANGED main_vars

\* ---- the three-step reference of the catalog matcher, stated on sets of rows
Min(S) == CHOOSE x \in S : \A y \in S : x <= y

HasHyphen(s) == \E j \in 1..Len(s) : s[j] = "-"

BeforeFirstHyphen(s) ==
    SubSeq(s, 1, Min({j \in 1..Len(s) : s[j] = "-"}) - 1)

IsPrefixOf(p, s) == Len(p) <= Len(s) /\ \A i \in 1..Len(p) : s[i] = p[i]

KeyOf(df, i) == normalize_text(df[i][MAPPING_PRODUCT_CODE_KEY])

ExactRows(item, df) == {i \in 1..Len(df) : KeyOf(df, i) = normalize_text(item)}

PrefixRows(item, df) ==
    {i \in 1..Len(df) : IsPrefixOf(normalize_text(BeforeFirstHyphen(item)), KeyOf(df, i))}

RefMatch(item, df) ==
    IF ExactRows(item, df) # {} THEN Min(ExactRows(item, df))
    ELSE IF HasHyphen(item) /\ PrefixRows(item, df) # {} THEN Min(PrefixRows(item, df))
    ELSE 0

MatchReturned == fn_pc = "returned" /\ call.fn = "find_mapping_row"

\* C2: find_mapping_row equals the three-step reference: the first row whose key
\* normalizes to the normalized item code; failing that, and only for an item
\* code with a hyphen, the first row whose normalized key starts with the
\* normalized text before the first hyphen; otherwise no row (0).
C2_MatchEqualsReference ==
    MatchReturned => ret = RefMatch(call.item_no, call.mapping_df)

\* C2 witness: an exact match in the second row wins over a prefix match in the first
C2_Witness ==
    /\ MatchReturned
    /\ ret = 2
    /\ HasHyphen(call.item_no)
    /\ 1 \in PrefixRows(call.item_no, call.mapping_df)

\* rows whose key normalizes to exactly the normalized base of the item code
BaseRows(item, df) ==
    {i \in 1..Len(df) : KeyOf(df, i) = normalize_text(BeforeFirstHyphen(item))}

\* C3 as stated: for an item code base-suffix without an exact match, if some
\* row's key normalizes to exactly the normalized base, that row is returned.
C3_PrefixRecoversBase ==
    (MatchReturned /\ HasHyphen(call.item_no)
        /\ ExactRows(call.item_no, call.mapping_df) = {}
        /\ BaseRows(call.item_no, call.mapping_df) # {})
    => ret \in BaseRows(call.item_no, call.mapping_df)

\* C3 amended: the base row is returned when no earlier row's normalized key
\* starts with the normalized base (the first prefix row wins).
C3_PrefixRecoversFirstBase ==
    (MatchReturned /\ HasHyphen(call.item_no)
        /\ ExactRows(call.item_no, call.mapping_df) = {})
    => \A i \in BaseRows(call.item_no, call.mapping_df) :
          (\A j \in 1..(i - 1) : j \notin PrefixRows(call.item_no, call.mapping_df))
          => ret = i

\* C3 witness: the base row is the second row, after a row that is no prefix match
C3_Witness ==
    /\ MatchReturned
    /\ HasHyphen(call.item_no)
    /\ ExactRows(call.item_no, call.mapping_df) = {}
    /\ ret = 2
    /\ 2 \in BaseRows(call.item_no, call.mapping_df)
    /\ Len(BeforeFirstHyphen(call.item_no)) > 0

MatchNext == CallFindMappingRow

SpecMatch == MatchInit /\ [][MatchNext]_vars

(***************************************************************************)
(* VariantGrouper                                                          *)
(***************************************************************************)
SEP == <<" ", "-", " ">>

\* the color of one variant name (lines 88-90, 93)
variant_color(name) ==
    IF contains(name, SEP) THEN strip(split(name, SEP)[1]) ELSE strip(name)

\* a plausible slip: the second segment taken as the size, not the last
variant_size_second_segment(name) ==
    IF contains(name, SEP) THEN strip(split(name, SEP)[2]) ELSE <<>>

\* the size of one variant name (lines 88-94), <<>> for none
variant_size(name) ==
    IF contains(name, SEP)
    THEN LET parts == split(name, SEP) IN strip(parts[Len(parts)])
    ELSE <<>>

\* the position of color among the keys of groups, 0 when it is no key
key_index(groups, color) ==
    IF \E i \in 1..Len(groups) : groups[i].color = color
    THEN CHOOSE i \in 1..Len(groups) : groups[i].color = color
    ELSE 0

RECURSIVE build_groups(_, _)
\* the first loop of group_by_color_and_size: groups is the dict color -> set of
\* sizes, kept as the sequence of its items in insertion order
build_groups(variant_names, groups) ==
    IF variant_names = <<>> THEN groups
    ELSE LET name == Head(variant_names)
             color == variant_color(name)
             size == variant_size(name)
             g1 == IF key_index(groups, color) = 0
                   THEN Append(groups, [color |-> color, sizes |-> {}])
                   ELSE groups
             k == key_index(g1, color)
             g2 == IF size # <<>>
                   THEN [g1 EXCEPT ![k].sizes = @ \cup {size}]
                   ELSE g1
         IN  build_groups(Tail(variant_names), g2)

RECURSIVE set_to_list(_)
\* the elements of a set in some iteration order
set_to_list(S) ==
    IF S = {} THEN <<>> ELSE LET x == CHOOSE x \in S : TRUE IN <<x>> \o set_to_list(S \ {x})

\* one rendered line (lines 100-103)
group_line(g) ==
    IF g.sizes # {}
    THEN g.color \o <<":", " ">> \o join(sorted(set_to_list(g.sizes)), <<",", " ">>)
    ELSE g.color

group_by_color_and_size(variant_names) ==
    LET groups == build_groups(variant_names, <<>>)
        output_lines == [i \in 1..Len(groups) |-> group_line(groups[i])]
    IN  join(sorted(output_lines), <<"\n">>)

(***************************************************************************)
(* Specification SpecGroup: group_by_color_and_size on every list of       *)
(* variant names within the bounds.                                        *)
(***************************************************************************)
MaxNames == 3

\* the variant names the lists are drawn from
VariantNames ==
    { <<"A">>,  \* 'A'
      <<"B">>,  \* 'B'
      <<"a">>,  \* 'a'
      <<" ","A"," ">>,  \* ' A '
      <<"A","B">>,  \* 'AB'
      <<"A"," ","-"," ","B">>,  \* 'A - B'
      <<"A"," ","-"," ","C">>,  \* 'A - C'
      <<"A"," ","-"," ","B"," ","-"," ","C">>,  \* 'A - B - C'
      <<"B"," ","-"," ","1","0">>,  \* 'B - 10'
      <<"B"," ","-"," ","9">>,  \* 'B - 9'
      <<"A"," ","-"," ">>,  \* 'A - '
      <<"A"," ","-","B">>,  \* 'A -B'
      <<" ","-"," ","B">>,  \* ' - B'
      <<"A"," ","-"," ","-"," ","B">>,  \* 'A - - B'
      <<"A",":"," ","B">> }

\* ['Black - Frame - Small', 'Black - Frame - Large', 'White - Frame - Small']
Example1 ==
    << <<"B","l","a","c","k"," ","-"," ","F","r","a","m","e"," ","-"," ","S","m","a","l","l">>,
       <<"B","l","a","c","k"," ","-"," ","F","r","a","m","e"," ","-"," ","L","a","r","g","e">>,
       <<"W","h","i","t","e"," ","-"," ","F","r","a","m","e"," ","-"," ","S","m","a","l","l">> >>
\* 'Black: Large, Small\nWhite: Small'
Expected1 == <<"B","l","a","c","k",":"," ","L","a","r","g","e",","," ","S","m","a","l","l","\n","W","h","i","t","e",":"," ","S","m","a","l","l">>
\* ['Oak'] and 'Oak'
Example2 == << <<"O","a","k">> >>
Expected2 == <<"O","a","k">>

GroupInit ==
    /\ call \in [fn : {"group_by_color_and_size"},
                 variant_names : SeqsOf(VariantNames, 0, MaxNames) \cup {Example1, Example2}]
    /\ ret = <<>>
    /\ fn_pc = "call"
    /\ MainIdle

CallGroup ==
    /\ fn_pc = "call"
    /\ call.fn = "group_by_color_and_size"
    /\ ret' = group_by_color_and_size(call.variant_names)
    /\ fn_pc' = "returned"
    /\ UNCHANGED call
    /\ UNCHANGED main_vars

\* ---- the reference of the variant grouper, stated on sets
RECURSIVE RefLastSegment(_)
\* the text after the last separator of the left-to-right split
RefLastSegment(s) ==
    LET i == find(s, SEP, 1)
    IN  IF i = 0 THEN s ELSE RefLastSegment(SubSeq(s, i + 3, Len(s)))

RefFirstSegment(s) == SubSeq(s, 1, find(s, SEP, 1) - 1)

RefColor(name) == IF contains(name, SEP) THEN strip(RefFirstSegment(name)) ELSE strip(name)

\* the sizes collected for a color; a last segment that trims to nothing is no size
RefSizes(names, color) ==
    { strip(RefLastSegment(names[i])) :
        i \in {j \in 1..Len(names) : contains(names[j], SEP) /\ RefColor(names[j]) = color} }
    \ {<<>>}

StrLeq(a, b) == a = b \/ StrLess(a, b)

RECURSIVE Ascending(_)
\* the elements of a set of strings in ascending order
Ascending(S) ==
    IF S = {} THEN <<>>
    ELSE LET least == CHOOSE x \in S : \A y \in S : StrLeq(x, y)
         IN  <<least>> \o Ascending(S \ {least})

RefLine(names, color) ==
    IF RefSizes(names, color) = {} THEN color
    ELSE color \o <<":", " ">> \o join(Ascending(RefSizes(names, color)), <<",", " ">>)

RECURSIVE RefLines(_, _)
\* one line per color of the set colors, ascending on the rendered line
RefLines(names, colors) ==
    IF colors = {} THEN <<>>
    ELSE LET first == CHOOSE c \in colors :
                         \A d \in colors : StrLeq(RefLine(names, c), RefLine(names, d))
         IN  <<RefLine(names, first)>> \o RefLines(names, colors \ {first})

RefGroup(names) ==
    join(RefLines(names, {RefColor(names[i]) : i \in 1..Len(names)}), <<"\n">>)

GroupReturned == fn_pc = "returned" /\ call.fn = "group_by_color_and_size"

GroupNext == CallGroup

SpecGroup == GroupInit /\ [][GroupNext]_vars

(***************************************************************************)
(* ProductConfigurator                                                     *)
(***************************************************************************)
LEG_COLORS == << LEG_Black, LEG_Grey, LEG_Sand, LEG_White >>

\* self.products in declaration order: the surface of each key tuple and its leg
\* colors (the core and leg materials of the key are never read)
products ==
    << [surface |-> SURF_BlackLinoleum, colors |-> LEG_COLORS],
       [surface |-> SURF_GreyLinoleum, colors |-> LEG_COLORS],
       [surface |-> SURF_OakLacquered, colors |-> LEG_COLORS],
       [surface |-> SURF_OakOiledOak, colors |-> LEG_COLORS],
       [surface |-> SURF_SandLaminate, colors |-> LEG_COLORS],
       [surface |-> SURF_SmokedOak, colors |-> LEG_COLORS],
       [surface |-> SURF_WhiteLaminate, colors |-> LEG_COLORS] >>

default_sizes == << SIZE_170, SIZE_225, SIZE_255, SIZE_295 >>

specific_sizes == (SURF_SandLaminate :> << SIZE_225, SIZE_255, SIZE_295 >>)

\* the option record returned for "no option" (None)
None == [none |-> TRUE]

RECURSIVE get_options_from(_, _)
\* the loop of get_options from table entry i on
get_options_from(product_name, i) ==
    IF i > Len(products) THEN None
    ELSE IF contains(lower(product_name), lower(products[i].surface))
         THEN [none |-> FALSE,
               benfarver |-> products[i].colors,
               stoerrelser |-> get(specific_sizes, products[i].surface, default_sizes)]
         ELSE get_options_from(product_name, i + 1)

\* a plausible slip: the per-surface size list is never consulted
get_options_default_sizes(product_name) ==
    LET o == get_options_from(product_name, 1)
    IN  IF o.none THEN o ELSE [o EXCEPT !.stoerrelser = default_sizes]

get_options(product_name) == get_options_from(product_name, 1)

(***************************************************************************)
(* StockResolver                                                           *)
(***************************************************************************)
\* stock[stock["productkey"].apply(...)] then filtered[notna & != ""]:
\* the rows of the product whose flag column is neither missing nor empty
filtered_rows(stock, norm_product_key, flag_col) ==
    SelectSeq(stock, LAMBDA r :
        /\ normalize_text(r[COL_productkey]) = norm_product_key
        /\ ~isna(r[flag_col])
        /\ r[flag_col] # <<>>)

product_rows(stock, norm_product_key) ==
    SelectSeq(stock, LAMBDA r : normalize_text(r[COL_productkey]) = norm_product_key)

RECURSIVE dict_fromkeys(_, _)
\* list(dict.fromkeys(names)): each name once, in order of first occurrence
dict_fromkeys(names, seen) ==
    IF names = <<>> THEN seen
    ELSE IF \E i \in 1..Len(seen) : seen[i] = Head(names)
         THEN dict_fromkeys(Tail(names), seen)
         ELSE dict_fromkeys(Tail(names), Append(seen, Head(names)))

\* filtered["variantname"].dropna().astype(str).tolist(), then dict.fromkeys
unique_variant_names(filtered) ==
    LET names == [i \in 1..Len(filtered) |-> filtered[i][COL_variantname]]
    IN  dict_fromkeys(SelectSeq(names, LAMBDA v : ~isna(v)), <<>>)

\* the body shared by process_stock_rts_alternative (flag_col "rts") and
\* process_stock_mto_alternative (flag_col "mto"): the text returned, whether
\* the variant list was built (listed) and handed to the grouping (grouped), and
\* that list
process_stock_alternative(mapping_row, stock, flag_col) ==
    LET product_key == get(mapping_row, COL_productkey, <<>>)
        early == [text |-> <<>>, listed |-> FALSE, grouped |-> FALSE, unique_variant_names |-> <<>>]
    IN  IF product_key = <<>> \/ isna(product_key) THEN early
        ELSE IF product_rows(stock, normalize_text(product_key)) = <<>> THEN early
        ELSE LET filtered == filtered_rows(stock, normalize_text(product_key), flag_col)
                 unique == unique_variant_names(filtered)
                 product_name == str(get(mapping_row, normalize_col(PH_ProductName), <<>>))
                 options == get_options(product_name)
             IN  IF filtered = <<>> THEN early
                 ELSE IF ~options.none
                      THEN [text |-> STR_Benfarver \o join(options.benfarver, <<",", " ">>)
                                     \o STR_Stoerrelser \o join(options.stoerrelser, <<",", " ">>),
                            listed |-> TRUE,
                            grouped |-> FALSE,
                            unique_variant_names |-> unique]
                      ELSE [text |-> group_by_color_and_size(unique),
                            listed |-> TRUE,
                            grouped |-> TRUE,
                            unique_variant_names |-> unique]

process_stock_rts_alternative(mapping_row, stock) ==
    process_stock_alternative(mapping_row, stock, COL_rts)

process_stock_mto_alternative(mapping_row, stock) ==
    process_stock_alternative(mapping_row, stock, COL_mto)

(***************************************************************************)
(* Specification SpecStock: the two stock resolvers on every catalog row   *)
(* and stock table within the bounds.                                      *)
(***************************************************************************)
MaxStock == 3

COL_productname == normalize_col(PH_ProductName)

\* product keys of the catalog row: "K1", " k1" (the same key after
\* normalisation), "K3" (no stock row), the empty string and a missing cell
RowProductKeys == { <<"K","1">>, <<" ","k","1">>, <<"K","3">>, <<>>, NaN }

\* display names of the catalog row
RowProductNames ==
    { <<"S","a","n","d"," ","L","a","m","i","n","a","t","e">>,  \* 'Sand Laminate'
      <<"T","o","p"," ","i","n"," ","S","a","n","d"," ","L","a","m","i","n","a","t","e"," ","2">>,  \* 'Top in Sand Laminate 2'
      <<"s","a","n","d"," ","l","a","m","i","n","a","t","e">>,  \* 'sand laminate'
      <<"B","l","a","c","k"," ","L","i","n","o","l","e","u","m"," ","/"," ","S","a","n","d"," ","L","a","m","i","n","a","t","e">>,  \* 'Black Linoleum / Sand Laminate'
      <<"O","a","k">>,  \* 'Oak'
      NaN }

\* catalog rows: every product key with the name "Sand Laminate", and every
\* display name with the product key "K1"
StockMappingRows ==
    { (COL_productkey :> k) @@ (COL_productname :> SURF_SandLaminate) : k \in RowProductKeys }
    \cup { (COL_productkey :> <<"K","1">>) @@ (COL_productname :> n) : n \in RowProductNames }

StockRow(k, v, r, m) ==
    (COL_productkey :> k) @@ (COL_variantname :> v) @@ (COL_rts :> r) @@ (COL_mto :> m)

\* variant names of the stock rows: "A - B", "A", a whitespace-only name and a
\* missing cell
StockVariantNames == { <<"A"," ","-"," ","B">>, <<"A">>, <<" ">>, NaN }

\* stock rows: rows of product K1 available as RTS only or as MTO only, a row
\* of K1 with both flags blank, and a row of another product
StockRows ==
    { StockRow(<<"K","1">>, v, <<"x">>, NaN) : v \in StockVariantNames }
    \cup { StockRow(<<"K","1">>, v, <<>>, <<"x">>) : v \in StockVariantNames }
    \cup { StockRow(<<"K","1">>, <<"A">>, NaN, <<>>),
           StockRow(<<"K","2">>, <<"A">>, <<"x">>, <<"x">>) }

StockInit ==
    /\ call \in [fn : {"process_stock_alternative"}, mapping_row : StockMappingRows,
                 stock_df : SeqsOf(StockRows, 0, MaxStock)]
    /\ ret = <<>>
    /\ fn_pc = "call"
    /\ MainIdle

CallRTS ==
    /\ fn_pc = "call"
    /\ call.fn = "process_stock_alternative"
    /\ ret' = [flag_col |-> COL_rts,
               out |-> process_stock_rts_alternative(call.mapping_row, call.stock_df)]
    /\ fn_pc' = "returned"
    /\ UNCHANGED call
    /\ UNCHANGED main_vars

CallMTO ==
    /\ fn_pc = "call"
    /\ call.fn = "process_stock_alternative"
    /\ ret' = [flag_col |-> COL_mto,
               out |-> process_stock_mto_alternative(call.mapping_row, call.stock_df)]
    /\ fn_pc' = "returned"
    /\ UNCHANGED call
    /\ UNCHANGED main_vars

StockNext == CallRTS \/ CallMTO

SpecStock == StockInit /\ [][StockNext]_vars

StockReturned == fn_pc = "returned" /\ call.fn = "process_stock_alternative"

\* 'Benfarver: Black, Grey, Sand, White\nSt<oslash>rrelser: 225 x 90 cm / 88.5 x 35.5", 255 x 108 cm / 100.5 x 42.5", 295 x 108 cm / 116 x 42.5"'
SandLaminateSummary ==
    <<"B","e","n","f","a","r","v","e","r",":"," ","B","l","a","c","k",","," ","G","r","e","y",","," ","S","a","n","d",","," ","W","h","i","t","e","\n","S","t",OSLASH,"r","r","e","l","s","e","r",":"," ","2","2","5"," ","x"," ","9","0"," ","c","m"," ","/"," ","8","8",".","5"," ","x"," ","3","5",".","5","\"",","," ","2","5","5"," ","x"," ","1","0","8"," ","c","m"," ","/"," ","1","0","0",".","5"," ","x"," ","4","2",".","5","\"",","," ","2","9","5"," ","x"," ","1","0","8"," ","c","m"," ","/"," ","1","1","6"," ","x"," ","4","2",".","5","\"">>

\* the positions of the stock rows of the catalog row's product whose flag (the
\* one of the resolver that ran) is neither missing nor empty
SelectedRows ==
    {i \in 1..Len(call.stock_df) :
        /\ normalize_text(call.stock_df[i][COL_productkey])
              = normalize_text(call.mapping_row[COL_productkey])
        /\ call.stock_df[i][ret.flag_col] \notin {NaN, <<>>}}

NameContains(sub) == contains(str(call.mapping_row[COL_productname]), sub)

NameContainsAnyCase(sub) == contains(lower(str(call.mapping_row[COL_productname])), lower(sub))

\* C6 as stated: whenever the display name contains "Sand Laminate", both
\* resolvers return the fixed summary, for every stock table.
C6_SandLaminateAlways ==
    (StockReturned /\ NameContains(SURF_SandLaminate))
    => ret.out.text = SandLaminateSummary

\* C6 amended: for a display name that contains "Sand Laminate" and none of the
\* surfaces declared before it, and a product key that is present and
\* non-empty, the resolver returns the fixed summary exactly when the stock
\* table has a row of the product with a non-empty flag, whatever the variant
\* names of those rows; otherwise it returns the empty string.
C6_SandLaminateWhenInStock ==
    (StockReturned /\ NameContains(SURF_SandLaminate)
        /\ \A i \in 1..4 : ~NameContainsAnyCase(products[i].surface))
    => ret.out.text = IF SelectedRows # {} /\ call.mapping_row[COL_productkey] \notin {NaN, <<>>}
                      THEN SandLaminateSummary
                      ELSE <<>>

\* C6 witness: a Sand Laminate row whose stock rows carry two different variant
\* names, one of them whitespace-only, and the summary is returned
C6_Witness ==
    /\ StockReturned
    /\ NameContains(SURF_SandLaminate)
    /\ Cardinality(SelectedRows) >= 2
    /\ \E i, j \in SelectedRows :
          call.stock_df[i][COL_variantname] # call.stock_df[j][COL_variantname]
    /\ ret.out.text = SandLaminateSummary

\* blank: absent, empty or whitespace-only
IsBlank(v) == isna(v) \/ strip(v) = <<>>

\* the non-blank variant names of the selected rows, each once, in order of
\* first occurrence
RefVariantList ==
    LET names == [i \in 1..Len(call.stock_df) |-> call.stock_df[i][COL_variantname]]
        keep == {i \in SelectedRows :
                    /\ ~IsBlank(names[i])
                    /\ \A j \in SelectedRows : j < i => names[j] # names[i]}
    IN  [n \in 1..Cardinality(keep) |->
            names[CHOOSE i \in keep : Cardinality({j \in keep : j <= i}) = n]]

\* C7 as stated: the variant list built from the selected rows holds every
\* non-blank variant name exactly once in order of first occurrence and no
\* blank (absent, empty or whitespace-only) name, and a blank name never
\* produces an output line.
C7_VariantListNoBlanks ==
    (StockReturned /\ ret.out.listed)
    => /\ ret.out.unique_variant_names = RefVariantList
       /\ \A i \in 1..Len(ret.out.unique_variant_names) :
             ~IsBlank(ret.out.unique_variant_names[i])
       /\ ret.out.grouped =>
             \A i \in 1..Len(split(ret.out.text, <<"\n">>)) :
                 ret.out.unique_variant_names # <<>> => split(ret.out.text, <<"\n">>)[i] # <<>>

(***************************************************************************)
(* Regular-expression substitution as replace_text_placeholders and        *)
(* replace_hyperlink_placeholders use it: re.sub(pattern, repl, text) with *)
(* pattern = r"\{\{\s*" + re.escape(key) + r"\s*\}\}" and repl a           *)
(* replacement TEMPLATE, in which a backslash starts an escape.            *)
(***************************************************************************)
RECURSIVE lstrip_chars(_, _)
lstrip_chars(s, cs) == IF s # <<>> /\ Head(s) \in cs THEN lstrip_chars(Tail(s), cs) ELSE s

RECURSIVE rstrip_chars(_, _)
rstrip_chars(s, cs) ==
    IF s # <<>> /\ s[Len(s)] \in cs THEN rstrip_chars(SubSeq(s, 1, Len(s) - 1), cs) ELSE s

\* key = placeholder.strip("{}").strip()
placeholder_key(placeholder) == strip(rstrip_chars(lstrip_chars(placeholder, {"{", "}"}), {"{", "}"}))

\* chr(n) for the code points a template escape can name
CharOf(n) ==
    CASE n = 0 -> NUL
      [] n = 7 -> BEL
      [] n = 8 -> BS
      [] n = 9 -> "\t"
      [] n = 10 -> "\n"
      [] n = 11 -> VT
      [] n = 12 -> "\f"
      [] n = 13 -> "\r"
      [] n \in 32..126 -> Ascii[n - 31]
      [] OTHER -> "<chr>"

IsOctal(c) == CodePoint(c) \in 48..55
OctVal(c) == CodePoint(c) - 48

\* the value of re's failure to compile a replacement template (re.error)
ReError == [error |-> TRUE, text |-> <<>>]

RECURSIVE expand_template(_)
\* the replacement text a template stands for when the pattern has no group
\* (re's parse_template): \\ is a backslash; \a \b \f \n \r \t \v are control
\* characters; \0, \0o, \0oo and \ooo (o octal, the first of three at most 3)
\* are the character with that octal code; any other \digit is a reference to
\* a group the pattern does not have, \g a malformed group reference and any
\* other \letter a bad escape: all three raise re.error, as does a backslash
\* at the end; a backslash before any other character is kept with it.
\* (\g<0>, the whole match, is not modelled: no input of the model spells it.)
expand_template(repl) ==
    IF repl = <<>> THEN [error |-> FALSE, text |-> <<>>]
    ELSE IF Head(repl) # "\\"
    THEN LET rest == expand_template(Tail(repl))
         IN  IF rest.error THEN ReError ELSE [error |-> FALSE, text |-> <<Head(repl)>> \o rest.text]
    ELSE IF Len(repl) = 1 THEN ReError
    ELSE LET c == repl[2]
             c3 == IF Len(repl) >= 3 THEN repl[3] ELSE "x"
             c4 == IF Len(repl) >= 4 THEN repl[4] ELSE "x"
             \* emit(ch, n): ch stands for the first n characters of repl
             emit(chs, n) ==
                 LET rest == expand_template(SubSeq(repl, n + 1, Len(repl)))
                 IN  IF rest.error THEN ReError ELSE [error |-> FALSE, text |-> chs \o rest.text]
         IN  CASE c = "\\" -> emit(<<"\\">>, 2)
               [] c = "a" -> emit(<<BEL>>, 2)
               [] c = "b" -> emit(<<BS>>, 2)
               [] c = "f" -> emit(<<"\f">>, 2)
               [] c = "n" -> emit(<<"\n">>, 2)
               [] c = "r" -> emit(<<"\r">>, 2)
               [] c = "t" -> emit(<<"\t">>, 2)
               [] c = "v" -> emit(<<VT>>, 2)
               [] c = "0" ->
                    IF IsOctal(c3) /\ Len(repl) >= 3
                    THEN IF IsOctal(c4) /\ Len(repl) >= 4
                         THEN emit(<<CharOf(8 * OctVal(c3) + OctVal(c4))>>, 4)
                         ELSE emit(<<CharOf(OctVal(c3))>>, 3)
                    ELSE emit(<<NUL>>, 2)
               [] IsDigit(c) /\ c # "0" ->
                    IF /\ Len(repl) >= 4 /\ CodePoint(c) \in 49..51
                       /\ IsOctal(c3) /\ IsOctal(c4)
                    THEN emit(<<CharOf(64 * OctVal(c) + 8 * OctVal(c3) + OctVal(c4))>>, 4)
                    ELSE ReError
               [] IsAsciiLetter(c) /\ c \notin {"a", "b", "f", "n", "r", "t", "v"} -> ReError
               [] OTHER -> emit(<<"\\", c>>, 2)

RECURSIVE skip_space(_, _)
\* \s* from position i: the first position at or after i that holds no whitespace
skip_space(text, i) ==
    IF i <= Len(text) /\ IsSpace(text[i]) THEN skip_space(text, i + 1) ELSE i

\* the pattern \{\{\s*key\s*\}\} matched at position i of text: the position
\* after the match, 0 when it does not match there
match_at(text, key, i) ==
    IF ~(i + 1 <= Len(text) /\ text[i] = "{" /\ text[i + 1] = "{") THEN 0
    ELSE LET a == skip_space(text, i + 2)
             b == a + Len(key)
         IN  IF ~(b - 1 <= Len(text) /\ SubSeq(text, a, b - 1) = key) THEN 0
             ELSE LET c == skip_space(text, b)
                  IN  IF c + 1 <= Len(text) /\ text[c] = "}" /\ text[c + 1] = "}"
                      THEN c + 2
                      ELSE 0

RECURSIVE re_search_from(_, _, _)
re_search_from(text, key, i) ==
    IF i > Len(text) THEN FALSE
    ELSE IF match_at(text, key, i) # 0 THEN TRUE
    ELSE re_search_from(text, key, i + 1)

\* re.search(pattern, text) is not None
re_search(key, text) == re_search_from(text, key, 1)

RECURSIVE sub_from(_, _, _, _)
\* every non-overlapping match from position i on, leftmost first, replaced
sub_from(text, key, replacement, i) ==
    IF i > Len(text) THEN <<>>
    ELSE LET e == match_at(text, key, i)
         IN  IF e # 0 THEN replacement \o sub_from(text, key, replacement, e)
             ELSE <<text[i]>> \o sub_from(text, key, replacement, i + 1)

\* re.sub(pattern, repl, text): the template is compiled first, whether or not
\* the pattern matches, so a bad template raises on any text
re_sub(key, repl, text) ==
    LET t == expand_template(repl)
    IN  IF t.error THEN ReError
        ELSE [error |-> FALSE, text |-> sub_from(text, key, t.text, 1)]

(***************************************************************************)
(* Slides.  A slide is its shapes in z-order and the pictures add_picture  *)
(* put on it; a shape is [has_text_frame, paragraphs]; a paragraph is the  *)
(* sequence of its runs; a run is [text, hyperlink] (hyperlink <<>> for    *)
(* none).  A picture is [ph, at]: the placeholder it was fetched for and   *)
(* the shape whose position anchors it (the scaled width and height that   *)
(* lines 269-274 compute are left out: no claim reads them).               *)
(***************************************************************************)
Run(text) == [text |-> text, hyperlink |-> <<>>]

TextShape(paragraphs) == [has_text_frame |-> TRUE, paragraphs |-> paragraphs]

\* a shape without a text frame (a line, a picture)
PlainShape == [has_text_frame |-> FALSE, paragraphs |-> <<>>]

RECURSIVE concat(_)
\* "".join(parts)
concat(parts) == IF parts = <<>> THEN <<>> ELSE Head(parts) \o concat(Tail(parts))

\* "".join([run.text for run in paragraph.runs])
paragraph_text(paragraph) == concat([i \in 1..Len(paragraph) |-> paragraph[i].text])

\* shape.text: the paragraphs' texts joined by newline
shape_text(shape) ==
    join([i \in 1..Len(shape.paragraphs) |-> paragraph_text(shape.paragraphs[i])], <<"\n">>)

\* shape.text = "": one paragraph is left, without runs
clear_text(shape) == [shape EXCEPT !.paragraphs = << <<>> >>]

RECURSIVE apply_placeholders(_, _)
\* the inner loop of replace_text_placeholders: the substitutions applied one
\* after the other, in the order of the dict; the first bad template raises
apply_placeholders(text, placeholder_values) ==
    IF placeholder_values = <<>> THEN [error |-> FALSE, text |-> text]
    ELSE LET r == re_sub(placeholder_key(placeholder_values[1].ph),
                         placeholder_values[1].text, text)
         IN  IF r.error THEN ReError
             ELSE apply_placeholders(r.text, Tail(placeholder_values))

\* a plausible slip: only the first run is searched, the others are emptied
replace_paragraph_first_run_only(paragraph, placeholder_values) ==
    LET r == apply_placeholders(IF paragraph = <<>> THEN <<>> ELSE paragraph[1].text,
                                placeholder_values)
    IN  IF r.error THEN [error |-> TRUE, paragraph |-> paragraph]
        ELSE [error |-> FALSE,
              paragraph |-> [i \in 1..Len(paragraph) |->
                                [paragraph[i] EXCEPT !.text = IF i = 1 THEN r.text ELSE <<>>]]]

\* one paragraph of replace_text_placeholders (lines 303-313)
replace_paragraph(paragraph, placeholder_values) ==
    LET r == apply_placeholders(paragraph_text(paragraph), placeholder_values)
    IN  IF r.error THEN [error |-> TRUE, paragraph |-> paragraph]
        ELSE [error |-> FALSE,
              paragraph |-> [i \in 1..Len(paragraph) |->
                                [paragraph[i] EXCEPT !.text = IF i = 1 THEN r.text ELSE <<>>]]]

\* replace_text_placeholders(slide, placeholder_values): the slide after the
\* pass, or error when a re.sub raised.  The template of a replacement is
\* compiled on the first paragraph visited, before any run is written, so a
\* raise leaves the slide as it was.
replace_text_placeholders(slide, placeholder_values) ==
    LET done == [s \in 1..Len(slide.shapes) |->
                    [p \in 1..Len(slide.shapes[s].paragraphs) |->
                        replace_paragraph(slide.shapes[s].paragraphs[p], placeholder_values)]]
        raised == \E s \in 1..Len(slide.shapes) :
                      /\ slide.shapes[s].has_text_frame
                      /\ \E p \in 1..Len(slide.shapes[s].paragraphs) : done[s][p].error
    IN  IF raised THEN [error |-> TRUE, slide |-> slide]
        ELSE [error |-> FALSE,
              slide |-> [slide EXCEPT !.shapes =
                  [s \in 1..Len(slide.shapes) |->
                      IF slide.shapes[s].has_text_frame
                      THEN [slide.shapes[s] EXCEPT !.paragraphs =
                               [p \in 1..Len(slide.shapes[s].paragraphs) |-> done[s][p].paragraph]]
                      ELSE slide.shapes[s]]]]

RECURSIVE replace_hyperlink_run(_, _)
\* the innermost loop of replace_hyperlink_placeholders on one run
replace_hyperlink_run(run, hyperlink_values) ==
    IF hyperlink_values = <<>> THEN run
    ELSE LET h == hyperlink_values[1]
             key == placeholder_key(h.ph)
         IN  IF re_search(key, run.text)
             THEN replace_hyperlink_run(
                      [text |-> re_sub(key, h.display_text, run.text).text, hyperlink |-> h.url],
                      Tail(hyperlink_values))
             ELSE replace_hyperlink_run(run, Tail(hyperlink_values))

\* replace_hyperlink_placeholders(slide, hyperlink_values)
replace_hyperlink_placeholders(slide, hyperlink_values) ==
    [slide EXCEPT !.shapes =
        [s \in 1..Len(slide.shapes) |->
            IF slide.shapes[s].has_text_frame
            THEN [slide.shapes[s] EXCEPT !.paragraphs =
                     [p \in 1..Len(slide.shapes[s].paragraphs) |->
                         [r \in 1..Len(slide.shapes[s].paragraphs[p]) |->
                             replace_hyperlink_run(slide.shapes[s].paragraphs[p][r],
                                                   hyperlink_values)]]]
            ELSE slide.shapes[s]]]

\* the image placeholder the inner loop of lines 263-280 stops at for a text:
\* the position in IMAGE_PLACEHOLDERS_ORIG of the first one whose normalized
\* token occurs in the normalized text, 0 when the loop ends without a break
first_image_placeholder(tekst) ==
    LET hits == {i \in 1..Len(IMAGE_PLACEHOLDERS_ORIG) :
                    contains(normalize_text(tekst), normalize_text(IMAGE_PLACEHOLDERS_ORIG[i]))}
    IN  IF hits = {} THEN 0 ELSE Min(hits)

\* url and res.get(ph): a bitmap was resolved for ph
has_bitmap(image_values, res, ph) ==
    /\ get(image_values, ph, <<>>) # <<>>
    /\ get(res, ph, "none") = "bitmap"

RECURSIVE substitute_images(_, _, _, _)
\* the second loop of replace_image_placeholders_parallel (lines 260-280), from
\* shape s on
substitute_images(slide, image_values, res, s) ==
    IF s > Len(slide.shapes) THEN slide
    ELSE LET shape == slide.shapes[s]
             i == IF shape.has_text_frame THEN first_image_placeholder(shape_text(shape)) ELSE 0
         IN  IF i # 0 /\ has_bitmap(image_values, res, IMAGE_PLACEHOLDERS_ORIG[i])
             THEN substitute_images(
                      [shapes |-> [slide.shapes EXCEPT ![s] = clear_text(shape)],
                       pictures |-> Append(slide.pictures,
                                           [ph |-> IMAGE_PLACEHOLDERS_ORIG[i], at |-> s])],
                      image_values, res, s + 1)
             ELSE substitute_images(slide, image_values, res, s + 1)

\* duplicate_slide(prs, slide): the new slide is a deep copy of the template's
\* shapes (a value here), appended to the deck
duplicate_slide(deck, slide) == Append(deck, slide)

(***************************************************************************)
(* Field composition (main, lines 416-465)                                 *)
(***************************************************************************)
\* a plausible slip: a blank value still renders its label
compose_text_keeps_label(ph, label, value) ==
    IF ph \in {PH_ProductCode, PH_ProductName, PH_ProductCountry}
    THEN label \o <<" ">> \o (IF isna(value) THEN <<>> ELSE value)
    ELSE IF ph \in {PH_CertificateName, PH_ProductConsumptionCOM}
    THEN label \o <<"\n", "\n">> \o (IF isna(value) THEN <<>> ELSE value)
    ELSE label \o <<"\n">> \o (IF isna(value) THEN <<>> ELSE value)

\* lines 433-441: the text of one textual placeholder of a matched row
compose_text(ph, label, value) ==
    IF isna(value) \/ strip(str(value)) = <<>> THEN <<>>
    ELSE IF ph \in {PH_ProductCode, PH_ProductName, PH_ProductCountry}
    THEN label \o <<" ">> \o str(value)
    ELSE IF ph \in {PH_CertificateName, PH_ProductConsumptionCOM}
    THEN label \o <<"\n", "\n">> \o str(value)
    ELSE label \o <<"\n">> \o str(value)

\* placeholder_texts of an item without a catalog match (lines 418-425), a dict
\* kept as the sequence of its items in insertion order
placeholder_texts_not_found(item_no) ==
    [i \in 1..Len(TEXT_PLACEHOLDERS_ORIG) |->
        [ph |-> TEXT_PLACEHOLDERS_ORIG[i].ph,
         text |-> IF TEXT_PLACEHOLDERS_ORIG[i].ph = PH_ProductCode
                  THEN TEXT_PLACEHOLDERS_ORIG[i].label \o <<" ">> \o item_no
                  ELSE <<>>]]
    \o << [ph |-> PH_RTS, text |-> RTS_HEADING], [ph |-> PH_MTO, text |-> MTO_HEADING] >>

\* placeholder_texts of a matched row (lines 429-446)
placeholder_texts_matched(mapping_row, stock) ==
    [i \in 1..Len(TEXT_PLACEHOLDERS_ORIG) |->
        [ph |-> TEXT_PLACEHOLDERS_ORIG[i].ph,
         text |-> compose_text(TEXT_PLACEHOLDERS_ORIG[i].ph, TEXT_PLACEHOLDERS_ORIG[i].label,
                               get(mapping_row, normalize_col(TEXT_PLACEHOLDERS_ORIG[i].ph), <<>>))]]
    \o << [ph |-> PH_RTS,
           text |-> RTS_HEADING \o process_stock_rts_alternative(mapping_row, stock).text],
          [ph |-> PH_MTO,
           text |-> MTO_HEADING \o process_stock_mto_alternative(mapping_row, stock).text] >>

\* lines 453-455 and 462-464: a missing or blank URL becomes ""
url_or_empty(url) == IF isna(url) \/ strip(str(url)) = <<>> THEN <<>> ELSE url

\* hyperlink_vals (lines 450-456)
hyperlink_vals_of(mapping_row) ==
    [i \in 1..Len(HYPERLINK_PLACEHOLDERS_ORIG) |->
        [ph |-> HYPERLINK_PLACEHOLDERS_ORIG[i].ph,
         display_text |-> HYPERLINK_PLACEHOLDERS_ORIG[i].display_text,
         url |-> url_or_empty(get(mapping_row,
                                  normalize_col(HYPERLINK_PLACEHOLDERS_ORIG[i].ph), <<>>))]]

\* image_vals (lines 459-465)
image_vals_of(mapping_row) ==
    [ph \in {IMAGE_PLACEHOLDERS_ORIG[i] : i \in 1..Len(IMAGE_PLACEHOLDERS_ORIG)} |->
        url_or_empty(get(mapping_row, normalize_col(ph), <<>>))]

(***************************************************************************)
(* main(): the batch loop (lines 408-466) and, per matched item, the       *)
(* image fan-out of replace_image_placeholders_parallel (lines 242-280).   *)
(***************************************************************************)
MAX_WORKERS == 5

\* fetch_and_process_image_cached on a cache miss: a JPEG stream ("bitmap"),
\* None ("none": bad status or a caught exception), or an exception that
\* leaves the cached call ("raise")
FetchOutcomes == {"bitmap", "none", "raise"}

ImagePlaceholders == {IMAGE_PLACEHOLDERS_ORIG[i] : i \in 1..Len(IMAGE_PLACEHOLDERS_ORIG)}

\* lines 255-259: results[ph] = future.result(), None when it raised
collect_result(outcome) == IF outcome = "bitmap" THEN "bitmap" ELSE "none"

\* the function f with f[x] = v added or overwritten
Put(f, x, v) == [y \in DOMAIN f \cup {x} |-> IF y = x THEN v ELSE f[y]]

\* one pass of the loop body for an item without a catalog match (lines 413-427)
ItemNotFound ==
    /\ pc = "loop"
    /\ processed < Len(varenumre)
    /\ LET item_no == varenumre[processed + 1]
           texts == placeholder_texts_not_found(item_no)
           r == replace_text_placeholders(template_copy, texts)
       IN  /\ find_mapping_row(item_no, mapping_df, MAPPING_PRODUCT_CODE_KEY) = 0
           /\ missing_items' = Append(missing_items, item_no)
           /\ placeholder_texts' = texts
           /\ IF r.error
              THEN /\ slides' = duplicate_slide(slides, template_copy)
                   /\ pc' = "aborted"
                   /\ processed' = processed
              ELSE /\ slides' = duplicate_slide(slides, replace_hyperlink_placeholders(r.slide, <<>>))
                   /\ pc' = "loop"
                   /\ processed' = processed + 1
    /\ UNCHANGED <<varenumre, mapping_df, stock_df, template_copy, image_vals, futures, results,
                   cache, fn_vars>>

\* the loop body for a matched item up to the call of
\* replace_image_placeholders_parallel (lines 413-415, 429-465)
ItemMatched ==
    /\ pc = "loop"
    /\ processed < Len(varenumre)
    /\ LET item_no == varenumre[processed + 1]
           row == find_mapping_row(item_no, mapping_df, MAPPING_PRODUCT_CODE_KEY)
       IN  /\ row # 0
           /\ LET mapping_row == mapping_df[row]
                  texts == placeholder_texts_matched(mapping_row, stock_df)
                  r == replace_text_placeholders(template_copy, texts)
              IN  /\ placeholder_texts' = texts
                  /\ IF r.error
                     THEN /\ slides' = duplicate_slide(slides, template_copy)
                          /\ pc' = "aborted"
                          /\ image_vals' = image_vals
                     ELSE /\ slides' = duplicate_slide(slides,
                                 replace_hyperlink_placeholders(r.slide, hyperlink_vals_of(mapping_row)))
                          /\ pc' = "images"
                          /\ image_vals' = image_vals_of(mapping_row)
    /\ UNCHANGED <<varenumre, mapping_df, stock_df, template_copy, missing_items, processed,
                   futures, results, cache, fn_vars>>

\* lines 244-252: the tasks are the placeholders with a URL; all are submitted
Submit ==
    /\ pc = "images"
    /\ futures' = [ph \in {q \in ImagePlaceholders : get(image_vals, q, <<>>) # <<>>} |->
                      [state |-> "pending", outcome |-> "none"]]
    /\ results' = <<>>
    /\ pc' = "fetch"
    /\ UNCHANGED <<varenumre, mapping_df, stock_df, template_copy, slides, missing_items,
                   processed, placeholder_texts, image_vals, cache, fn_vars>>

\* a worker of the pool takes a submitted fetch; the cache is looked up first
FetchStart(ph) ==
    /\ pc = "fetch"
    /\ ph \in DOMAIN futures
    /\ futures[ph].state = "pending"
    /\ Cardinality({q \in DOMAIN futures : futures[q].state = "running"}) < MAX_WORKERS
    /\ futures' = [futures EXCEPT ![ph] =
                      [state |-> "running",
                       outcome |-> IF image_vals[ph] \in DOMAIN cache
                                   THEN cache[image_vals[ph]] ELSE "miss"]]
    /\ UNCHANGED <<varenumre, mapping_df, stock_df, template_copy, slides, missing_items,
                   processed, pc, placeholder_texts, image_vals, results, cache, fn_vars>>

\* the worker's fetch returns or raises (lines 225-240); a returned value is cached
FetchFinish(ph, outcome) ==
    /\ pc = "fetch"
    /\ ph \in DOMAIN futures
    /\ futures[ph].state = "running"
    /\ futures[ph].outcome # "miss" => outcome = futures[ph].outcome
    /\ futures' = [futures EXCEPT ![ph] = [state |-> "done", outcome |-> outcome]]
    /\ cache' = IF futures[ph].outcome = "miss" /\ outcome # "raise"
                THEN Put(cache, image_vals[ph], outcome)
                ELSE cache
    /\ UNCHANGED <<varenumre, mapping_df, stock_df, template_copy, slides, missing_items,
                   processed, pc, placeholder_texts, image_vals, results, fn_vars>>

\* the coordinating thread takes a completed future from as_completed (lines 253-259)
Collect(ph) ==
    /\ pc = "fetch"
    /\ ph \in DOMAIN futures
    /\ futures[ph].state = "done"
    /\ ph \notin DOMAIN results
    /\ results' = Put(results, ph, collect_result(futures[ph].outcome))
    /\ UNCHANGED <<varenumre, mapping_df, stock_df, template_copy, slides, missing_items,
                   processed, pc, placeholder_texts, image_vals, futures, cache, fn_vars>>

\* a plausible slip: the collecting loop is left at the first completed future
joined_at_first_result(fut, res) == DOMAIN fut = {} \/ DOMAIN res # {}

\* the as_completed loop has yielded every submitted future and the executor
\* block is left (lines 251-259)
joined(fut, res) == DOMAIN res = DOMAIN fut

\* all futures are collected and the executor block is left: the shapes loop
\* (lines 260-280) runs and the loop body of main ends
ImageSubstitute ==
    /\ pc = "fetch"
    /\ joined(futures, results)
    /\ slides' = [slides EXCEPT ![Len(slides)] = substitute_images(@, image_vals, results, 1)]
    /\ processed' = processed + 1
    /\ pc' = "loop"
    /\ UNCHANGED <<varenumre, mapping_df, stock_df, template_copy, missing_items,
                   placeholder_texts, image_vals, futures, results, cache, fn_vars>>

\* the loop is over: the deck is saved and offered (lines 470-488)
Finish ==
    /\ pc = "loop"
    /\ processed = Len(varenumre)
    /\ pc' = "done"
    /\ UNCHANGED <<varenumre, mapping_df, stock_df, template_copy, slides, missing_items,
                   processed, placeholder_texts, image_vals, futures, results, cache, fn_vars>>

ImagesNext ==
    \/ Submit
    \/ \E ph \in ImagePlaceholders : FetchStart(ph)
    \/ \E ph \in ImagePlaceholders, outcome \in FetchOutcomes : FetchFinish(ph, outcome)
    \/ \E ph \in ImagePlaceholders : Collect(ph)
    \/ ImageSubstitute

Next ==
    \/ ItemNotFound
    \/ ItemMatched
    \/ ImagesNext
    \/ Finish

(***************************************************************************)
(* Inputs of main: the item codes of the uploaded list, the catalog, the   *)
(* stock table and the template slide.                                     *)
(***************************************************************************)
MaxItems == 2

\* item codes: an exact match, a base-suffix code, an unknown code and an
\* unknown code holding a backslash
MainItems == { <<"1">>, <<"1","-","A">>, <<"9">>, <<"9","\\","A">> }

\* the normalized column of a placeholder in a catalog row
Col(ph) == normalize_col(ph)

AllMappingCols ==
    {Col(TEXT_PLACEHOLDERS_ORIG[i].ph) : i \in 1..Len(TEXT_PLACEHOLDERS_ORIG)}
    \cup {Col(HYPERLINK_PLACEHOLDERS_ORIG[i].ph) : i \in 1..Len(HYPERLINK_PLACEHOLDERS_ORIG)}
    \cup {Col(ph) : ph \in ImagePlaceholders}
    \cup {COL_productkey}

\* a catalog row: every column present, the cells not given are missing
MakeRow(vals) == [c \in AllMappingCols |-> IF c \in DOMAIN vals THEN vals[c] ELSE NaN]

\* product 1: two pictures, a fact sheet, stock under key K1; height is
\* whitespace, length is empty, the other cells are missing
RowOak ==
    MakeRow(   (Col(PH_ProductCode) :> <<"1">>)
            @@ (Col(PH_ProductName) :> <<"O","a","k">>)
            @@ (Col(PH_ProductHeight) :> <<" ">>)
            @@ (Col(PH_ProductWidth) :> <<"7","5">>)
            @@ (Col(PH_ProductLength) :> <<>>)
            @@ (Col(PH_ProductDiameter) :> <<"4">>)
            @@ (Col(PH_CertificateName) :> <<"E","N">>)
            @@ (Col(PH_FactSheetLink) :> <<"f">>)
            @@ (Col(PH_Packshot1) :> <<"u","1">>)
            @@ (Col(PH_Lifestyle1) :> <<"u","2">>)
            @@ (COL_productkey :> <<"K","1">>))

\* product 11: the complementary cells, the packshot of product 1, a blank
\* lifestyle URL and no product key
RowAsh ==
    MakeRow(   (Col(PH_ProductCode) :> <<"1","1">>)
            @@ (Col(PH_ProductName) :> <<"A","s","h">>)
            @@ (Col(PH_ProductCountry) :> <<"D","K">>)
            @@ (Col(PH_ProductHeight) :> <<"7">>)
            @@ (Col(PH_ProductLength) :> <<"2">>)
            @@ (Col(PH_ProductDepth) :> <<"3">>)
            @@ (Col(PH_ProductSeatHeight) :> <<"5">>)
            @@ (Col(PH_ProductDiameter) :> <<" ">>)
            @@ (Col(PH_CertificateName) :> <<>>)
            @@ (Col(PH_ProductConsumptionCOM) :> <<"c">>)
            @@ (Col(PH_ConfiguratorLink) :> <<"g">>)
            @@ (Col(PH_Packshot1) :> <<"u","1">>)
            @@ (Col(PH_Lifestyle1) :> <<" ">>))

MainCatalogs == { <<RowOak, RowAsh>>, <<RowAsh, RowOak>> }

\* two variants of product K1 in stock, none made to order
MainStock ==
    << StockRow(<<"K","1">>, <<"A"," ","-"," ","B">>, <<"x">>, NaN),
       StockRow(<<"K","1">>, <<"A"," ","-"," ","C">>, <<"x">>, NaN) >>

\* a template with one token per paragraph and one picture slot per shape
TemplateA ==
    [shapes |-> << TextShape(<< <<Run(PH_ProductName)>>, <<Run(PH_ProductCode)>> >>),
                   TextShape(<< <<Run(PH_ProductHeight)>>, <<Run(PH_CertificateName)>> >>),
                   TextShape(<< <<Run(PH_RTS)>> >>),
                   TextShape(<< <<Run(PH_FactSheetLink)>> >>),
                   TextShape(<< <<Run(PH_Packshot1)>> >>),
                   TextShape(<< <<Run(PH_Lifestyle1)>> >>) >>,
     pictures |-> <<>>]

\* a template with a token split over runs, a token with spaces inside the
\* braces, a token in another letter case, two picture tokens in one shape and
\* a shape without text
TemplateB ==
    [shapes |-> << TextShape(<< <<Run(<<"M","u","u","t","o"," ">>), Run(<<"{","{","P","r","o","d","u","c","t">>), Run(<<" ","n","a","m","e","}","}">>)>> >>),
                   TextShape(<< <<Run(<<"{","{"," ","P","r","o","d","u","c","t"," ","c","o","d","e"," ","}","}">>)>>, <<Run(<<"{","{","p","r","o","d","u","c","t"," ","w","i","d","t","h","}","}">>)>> >>),
                   TextShape(<< <<Run(PH_MTO)>> >>),
                   TextShape(<< <<Run(PH_ConfiguratorLink)>> >>),
                   TextShape(<< <<Run(PH_Packshot1 \o PH_Lifestyle1)>> >>),
                   PlainShape >>,
     pictures |-> <<>>]

MainTemplates == {TemplateA, TemplateB}

\* main after the three uploads are read and the template slide is taken
\* (lines 333-407): an empty deck, no missing item, nothing fetched yet
Init ==
    /\ varenumre \in SeqsOf(MainItems, 1, MaxItems)
    /\ mapping_df \in MainCatalogs
    /\ stock_df = MainStock
    /\ template_copy \in MainTemplates
    /\ slides = <<>>
    /\ missing_items = <<>>
    /\ processed = 0
    /\ pc = "loop"
    /\ placeholder_texts = <<>>
    /\ image_vals = <<>>
    /\ futures = <<>>
    /\ results = <<>>
    /\ cache = <<>>
    /\ FnIdle

Spec == Init /\ [][Next]_vars

(***************************************************************************)
(* replace_image_placeholders_parallel on its own: one slide, every choice *)
(* of the placeholders that have a URL.                                    *)
(***************************************************************************)
\* the URL of a placeholder when it has one; the first two share a URL
ImageUrl ==
       (PH_Packshot1 :> <<"u","1">>) @@ (PH_Lifestyle1 :> <<"u","1">>) @@ (PH_Lifestyle2 :> <<"u","2">>)
    @@ (PH_Lifestyle3 :> <<"u","3">>) @@ (PH_Lifestyle4 :> <<"u","4">>)

\* slides: one slot per shape (one token in another letter case and with
\* spaces); two tokens in one shape in either order, next to static text
ImageSlides ==
    { [shapes |-> << TextShape(<< <<Run(PH_Packshot1)>> >>),
                     TextShape(<< <<Run(<<"{","{"," ","p","r","o","d","u","c","t"," "," ","l","i","f","e","s","t","y","l","e","1"," ","}","}">>)>> >>),
                     TextShape(<< <<Run(PH_Lifestyle2)>>, <<Run(PH_Lifestyle3)>> >>),
                     TextShape(<< <<Run(PH_Lifestyle4)>> >>),
                     PlainShape >>,
       pictures |-> <<>>],
      [shapes |-> << TextShape(<< <<Run(<<"O","a","k">>)>> >>),
                     TextShape(<< <<Run(PH_Lifestyle1 \o PH_Packshot1)>> >>),
                     TextShape(<< <<Run(PH_Lifestyle4), Run(<<" ","x">>)>> >>) >>,
       pictures |-> <<>>] }

ImagesInit ==
    /\ varenumre = << <<"1">> >>
    /\ mapping_df = <<>>
    /\ stock_df = <<>>
    /\ template_copy = [shapes |-> <<>>, pictures |-> <<>>]
    /\ slides \in {<<s>> : s \in ImageSlides}
    /\ missing_items = <<>>
    /\ processed = 0
    /\ pc = "images"
    /\ placeholder_texts = <<>>
    /\ image_vals \in {[ph \in ImagePlaceholders |-> IF ph \in withUrl THEN ImageUrl[ph] ELSE <<>>] :
                          withUrl \in SUBSET ImagePlaceholders}
    /\ futures = <<>>
    /\ results = <<>>
    /\ cache = <<>>
    /\ FnIdle

SpecImages == ImagesInit /\ [][ImagesNext]_vars

(***************************************************************************)
(* Properties of the batch loop (specification Spec)                       *)
(***************************************************************************)
\* the codes among the first n of the list that have no catalog match
NotFoundCodes(n) ==
    SelectSeq(SubSeq(varenumre, 1, n), LAMBDA c : RefMatch(c, mapping_df) = 0)

\* the template after the text and hyperlink passes for an item code
ComposedFor(item) ==
    LET row == RefMatch(item, mapping_df)
    IN  IF row = 0
        THEN replace_hyperlink_placeholders(
                 replace_text_placeholders(template_copy, placeholder_texts_not_found(item)).slide,
                 <<>>)
        ELSE replace_hyperlink_placeholders(
                 replace_text_placeholders(template_copy,
                     placeholder_texts_matched(mapping_df[row], stock_df)).slide,
                 hyperlink_vals_of(mapping_df[row]))

\* slide is the clone composed for item: shape by shape the composed template,
\* a picture slot possibly emptied by the image pass
IsCloneFor(slide, item) ==
    /\ Len(slide.shapes) = Len(template_copy.shapes)
    /\ \A s \in 1..Len(slide.shapes) :
           \/ slide.shapes[s] = ComposedFor(item).shapes[s]
           \/ slide.shapes[s] = clear_text(ComposedFor(item).shapes[s])

\* the accounting of C1 between two passes of the loop body
Accounting ==
    pc \in {"loop", "done"} =>
        /\ Len(slides) = processed
        /\ missing_items = NotFoundCodes(processed)
        /\ \A i \in 1..processed : IsCloneFor(slides[i], varenumre[i])

\* C1: after the first k codes are processed the deck holds k slides, the i-th
\* one the clone composed for the i-th code, the missing-items list is the
\* subsequence of those codes without a catalog match, and no code aborts the
\* loop.
C1_BatchAccounting == Accounting /\ pc # "aborted"

\* every placeholder token of the three tables, RTS and MTO, with the value the
\* slide of an unmatched item is said to show: the code line for the product
\* code, nothing for the rest
OnlyCodeValues(item) ==
    [i \in 1..Len(TEXT_PLACEHOLDERS_ORIG) |->
        [ph |-> TEXT_PLACEHOLDERS_ORIG[i].ph,
         text |-> IF TEXT_PLACEHOLDERS_ORIG[i].ph = PH_ProductCode
                  THEN LBL_ProductCode \o <<" ">> \o item ELSE <<>>]]
    \o << [ph |-> PH_RTS, text |-> <<>>], [ph |-> PH_MTO, text |-> <<>>] >>
    \o [i \in 1..Len(HYPERLINK_PLACEHOLDERS_ORIG) |->
           [ph |-> HYPERLINK_PLACEHOLDERS_ORIG[i].ph, text |-> <<>>]]
    \o [i \in 1..Len(IMAGE_PLACEHOLDERS_ORIG) |-> [ph |-> IMAGE_PLACEHOLDERS_ORIG[i], text |-> <<>>]]

\* C4: the slide of an item code without a catalog match shows the code in
\* place of the product-code token and nothing in place of every other token
\* (text, RTS, MTO, hyperlink and image tokens): no label, no token left.
C4_NotFoundSlideShowsOnlyCode ==
    \A i \in 1..Len(slides) :
        (i <= processed /\ RefMatch(varenumre[i], mapping_df) = 0) =>
            /\ slides[i].pictures = <<>>
            /\ \A s \in 1..Len(slides[i].shapes) :
                   \A p \in 1..Len(slides[i].shapes[s].paragraphs) :
                       paragraph_text(slides[i].shapes[s].paragraphs[p]) =
                           apply_placeholders(
                               paragraph_text(template_copy.shapes[s].paragraphs[p]),
                               OnlyCodeValues(varenumre[i])).text

\* the separator between label and value of a textual field
RefSeparator(ph) ==
    IF ph \in {PH_ProductCode, PH_ProductName, PH_ProductCountry} THEN <<" ">>
    ELSE IF ph \in {PH_CertificateName, PH_ProductConsumptionCOM} THEN <<"\n", "\n">>
    ELSE <<"\n">>

\* absent, empty or whitespace only
RefBlank(value) == value = NaN \/ \A i \in 1..Len(value) : IsSpace(value[i])

RefRendered(ph, label, value) ==
    IF RefBlank(value) THEN <<>> ELSE label \o RefSeparator(ph) \o value

\* the row matched for the item being composed
CurrentRow == mapping_df[RefMatch(varenumre[processed + 1], mapping_df)]

\* C9: for a matched row the text of each textual placeholder is label,
\* separator (a space, a blank line or a newline by field) and value, or the
\* empty string when the value is absent or blank; RTS and MTO are their
\* heading followed by the resolver's text, the heading alone when it is empty.
C9_FieldComposition ==
    pc = "images" =>
        /\ Len(placeholder_texts) = Len(TEXT_PLACEHOLDERS_ORIG) + 2
        /\ \A i \in 1..Len(TEXT_PLACEHOLDERS_ORIG) :
               /\ placeholder_texts[i].ph = TEXT_PLACEHOLDERS_ORIG[i].ph
               /\ placeholder_texts[i].text =
                      RefRendered(TEXT_PLACEHOLDERS_ORIG[i].ph, TEXT_PLACEHOLDERS_ORIG[i].label,
                                  CurrentRow[Col(TEXT_PLACEHOLDERS_ORIG[i].ph)])
        /\ LET rts == placeholder_texts[Len(TEXT_PLACEHOLDERS_ORIG) + 1]
               mto == placeholder_texts[Len(TEXT_PLACEHOLDERS_ORIG) + 2]
               rts_text == process_stock_rts_alternative(CurrentRow, stock_df).text
               mto_text == process_stock_mto_alternative(CurrentRow, stock_df).text
           IN  /\ rts.ph = PH_RTS
               /\ rts.text = <<"P","r","o","d","u","c","t"," ","i","n"," ","s","t","o","c","k"," ","v","e","r","s","i","o","n","s",":">> \o <<"\n", "\n">> \o rts_text
               /\ mto.ph = PH_MTO
               /\ mto.text = <<"A","v","i","l","a","b","l","e"," ","f","o","r"," ","m","a","d","e"," ","t","o"," ","o","r","d","e","r",":">> \o <<"\n", "\n">> \o mto_text

\* a matched row with a blank and a filled field, a long-form field, stock to
\* list as RTS and nothing made to order
C9_Witness ==
    /\ pc = "images"
    /\ \E i \in 1..Len(TEXT_PLACEHOLDERS_ORIG) : placeholder_texts[i].text = <<>>
    /\ \E i \in 1..Len(TEXT_PLACEHOLDERS_ORIG) :
           /\ placeholder_texts[i].ph = PH_CertificateName
           /\ placeholder_texts[i].text = LBL_CertificateName \o <<"\n", "\n", "E", "N">>
    /\ Len(placeholder_texts[Len(TEXT_PLACEHOLDERS_ORIG) + 1].text) > Len(RTS_HEADING)
    /\ placeholder_texts[Len(TEXT_PLACEHOLDERS_ORIG) + 2].text =
           <<"A","v","i","l","a","b","l","e"," ","f","o","r"," ","m","a","d","e"," ","t","o"," ","o","r","d","e","r",":">> \o <<"\n", "\n">>

(***************************************************************************)
(* Properties of the image pass (specification SpecImages)                 *)
(***************************************************************************)
\* the text of a text-bearing shape contains the token of ph
TokenIn(ph, shape) ==
    /\ shape.has_text_frame
    /\ contains(normalize_text(shape_text(shape)), normalize_text(ph))

\* a decoded bitmap was resolved for ph
Resolved(ph) ==
    /\ image_vals[ph] # <<>>
    /\ ph \in DOMAIN results
    /\ results[ph] = "bitmap"

\* the step that runs the shapes loop of the image pass
SubstitutionStep == pc = "fetch" /\ pc' = "loop"

HasPicture(slide, ph, s) == \E k \in 1..Len(slide.pictures) : slide.pictures[k] = [ph |-> ph, at |-> s]

\* C8: after image substitution every text-bearing shape whose text holds the
\* token of a placeholder without a resolved bitmap has its text cleared and no
\* picture for it, and no image token is left on the slide.
C8_NoBitmapClearsText ==
    [][SubstitutionStep =>
          LET before == slides[Len(slides)]
              after == slides'[Len(slides)]
          IN  /\ \A s \in 1..Len(before.shapes) : \A ph \in ImagePlaceholders :
                     (TokenIn(ph, before.shapes[s]) /\ ~Resolved(ph)) =>
                         /\ shape_text(after.shapes[s]) = <<>>
                         /\ ~HasPicture(after, ph, s)
              /\ \A s \in 1..Len(after.shapes) : \A ph \in ImagePlaceholders :
                     ~TokenIn(ph, after.shapes[s])]_vars

\* C10: whatever fetches fail and however the workers interleave, the pass is
\* never aborted, every submitted fetch is collected before the shapes loop, every placeholder with a bitmap whose token is in a shape gets its
\* picture there, and only the coordinating thread writes results.
C10_FailureIsolation ==
    /\ [](pc # "aborted")
    /\ [][SubstitutionStep =>
             LET before == slides[Len(slides)]
                 after == slides'[Len(slides)]
             IN  /\ DOMAIN results = {ph \in ImagePlaceholders : image_vals[ph] # <<>>}
                 /\ \A s \in 1..Len(before.shapes) : \A ph \in ImagePlaceholders :
                        (TokenIn(ph, before.shapes[s]) /\ Resolved(ph)) =>
                            HasPicture(after, ph, s)]_vars
    /\ [][results' # results => (Submit \/ \E ph \in ImagePlaceholders : Collect(ph))]_vars

(***************************************************************************)
(* Ordering of the fetches and the substitution passes (specification Spec)*)
(***************************************************************************)
\* a fetch submitted for the slide in progress has not completed yet
FetchInFlight == pc = "fetch" /\ \E ph \in DOMAIN futures : futures[ph].state # "done"

\* the slide in progress
CurrentSlide == slides[Len(slides)]

\* C11 as stated: no substitution pass (text, hyperlink or image) has touched a
\* slide before or while a fetch dispatched for it is in flight, so the slide is
\* still the clone of the template then.
C11_JoinBeforeAnySubstitution == FetchInFlight => CurrentSlide = template_copy

\* C11, amended: the text and hyperlink passes of a slide are done in the step
\* that precedes the dispatch of its fetches; from the dispatch on and while a
\* fetch is in flight the slide is not touched; the image pass, and with it the
\* end of the loop body, comes only when every submitted fetch has completed
\* and is collected.
C11_JoinBeforeImageSubstitution ==
    /\ [][(pc = "loop" /\ pc' = "images") =>
             slides'[Len(slides')] = ComposedFor(varenumre[processed + 1])]_vars
    /\ [][(pc \in {"images", "fetch"} /\ pc' = "fetch") => slides' = slides]_vars
    /\ [][(pc = "fetch" /\ pc' # "fetch") =>
             /\ \A ph \in DOMAIN futures : futures[ph].state = "done"
             /\ DOMAIN results = DOMAIN futures]_vars

\* two fetches of a slide, one completed and one still running, on a slide
\* whose text is already substituted
C11_Witness ==
    /\ pc = "fetch"
    /\ \E ph \in DOMAIN futures : futures[ph].state = "running"
    /\ \E ph \in DOMAIN futures : futures[ph].state = "done"
    /\ CurrentSlide # template_copy
    /\ CurrentSlide.pictures = <<>>

(***************************************************************************)
(* replace_text_placeholders on its own (specification SpecText): one      *)
(* paragraph of up to MaxRuns runs and a placeholder mapping.              *)
(***************************************************************************)
MaxRuns == 2

\* run texts: a whole token, a token in two pieces, a token with spaces inside
\* the braces, a token in another letter case, another token, static text and
\* an empty run
RunTexts ==
    { PH_ProductName, <<"{","{","P","r","o","d","u","c","t">>, <<" ","n","a","m","e","}","}">>, <<"{","{"," ","P","r","o","d","u","c","t"," ","n","a","m","e"," ","}","}">>, <<"{","{","p","r","o","d","u","c","t"," ","n","a","m","e","}","}">>,
      PH_ProductCode, <<"M","u","u","t","o"," ">>, <<>> }

\* placeholder mappings: a single value; a value that is itself the token of a
\* later entry; the mapping main builds for the unmatched codes 9 and 9\A; and
\* a value that spells a backslash twice
TextMappings ==
    { << [ph |-> PH_ProductName, text |-> <<"O","a","k">>] >>,
      << [ph |-> PH_ProductName, text |-> PH_ProductCode],
         [ph |-> PH_ProductCode, text |-> <<"7">>] >>,
      placeholder_texts_not_found(<<"9">>),
      placeholder_texts_not_found(<<"9","\\","A">>),
      << [ph |-> PH_ProductName, text |-> <<"a","\\","\\","b">>] >> }

\* a slide of one text-bearing shape holding one paragraph of the given runs
OneParagraphSlide(texts) ==
    [shapes |-> << TextShape(<< [i \in 1..Len(texts) |-> Run(texts[i])] >>) >>,
     pictures |-> <<>>]

TextInit ==
    /\ call \in [fn : {"replace_text_placeholders"},
                 slide : {OneParagraphSlide(t) : t \in SeqsOf(RunTexts, 0, MaxRuns)},
                 placeholder_values : TextMappings]
    /\ ret = <<>>
    /\ fn_pc = "call"
    /\ MainIdle

\* the call: the slide as the function leaves it, and whether it raised
CallReplaceText ==
    /\ fn_pc = "call"
    /\ call.fn = "replace_text_placeholders"
    /\ ret' = replace_text_placeholders(call.slide, call.placeholder_values)
    /\ fn_pc' = "returned"
    /\ UNCHANGED call
    /\ UNCHANGED main_vars

TextNext == CallReplaceText

SpecText == TextInit /\ [][TextNext]_vars

TextReturned == fn_pc = "returned" /\ call.fn = "replace_text_placeholders"

\* the paragraph handed to the call and the paragraph it left
ParagraphBefore == call.slide.shapes[1].paragraphs[1]

ParagraphAfter == ret.slide.shapes[1].paragraphs[1]

RECURSIVE RefApplyAll(_, _)
\* every replacement applied in the order of the mapping: each occurrence of
\* the bracketed token of an entry gives way to the entry's text
RefApplyAll(text, placeholder_values) ==
    IF placeholder_values = <<>> THEN text
    ELSE RefApplyAll(sub_from(text, placeholder_key(placeholder_values[1].ph),
                              placeholder_values[1].text, 1),
                     Tail(placeholder_values))

\* the paragraph is collapsed: the first run carries the substituted text of
\* the whole paragraph and the other runs are empty
Collapsed ==
    /\ Len(ParagraphAfter) = Len(ParagraphBefore)
    /\ ParagraphAfter[1].text =
           RefApplyAll(paragraph_text(ParagraphBefore), call.placeholder_values)
    /\ \A i \in 2..Len(ParagraphAfter) : ParagraphAfter[i].text = <<>>

\* the texts of the runs of the paragraph handed to the call
RunTextsBefore == [i \in 1..Len(ParagraphBefore) |-> ParagraphBefore[i].text]

NameToOak == << [ph |-> PH_ProductName, text |-> <<"O","a","k">>] >>

\* the three cases the claim singles out, for the mapping of the product name
\* to Oak: a token split over two runs, a token with spaces inside the braces,
\* a token in another letter case
SingledOutCases ==
    call.placeholder_values = NameToOak =>
        /\ RunTextsBefore = << <<"{","{","P","r","o","d","u","c","t">>, <<" ","n","a","m","e","}","}">> >> => ParagraphAfter[1].text = <<"O","a","k">>
        /\ RunTextsBefore = << <<"{","{"," ","P","r","o","d","u","c","t"," ","n","a","m","e"," ","}","}">> >> => ParagraphAfter[1].text = <<"O","a","k">>
        /\ RunTextsBefore = << <<"{","{","p","r","o","d","u","c","t"," ","n","a","m","e","}","}">> >> =>
               ParagraphAfter[1].text = <<"{","{","p","r","o","d","u","c","t"," ","n","a","m","e","}","}">>

\* no text of the mapping holds a backslash
NoBackslash ==
    \A i \in 1..Len(call.placeholder_values) :
        \A j \in 1..Len(call.placeholder_values[i].text) :
            call.placeholder_values[i].text[j] # "\\"

\* C12: for every paragraph with at least one run and every placeholder
\* mapping, after replace_text_placeholders the first run holds the paragraph's
\* concatenated text with every replacement applied and every other run is
\* empty; a token split over runs or with spaces inside the braces is
\* substituted, a token in another letter case is not.
C12_ParagraphCollapsesToOneRun ==
    (TextReturned /\ Len(ParagraphBefore) >= 1) => (Collapsed /\ SingledOutCases)

\* what holds of the code: the same for the mappings whose texts hold no
\* backslash
CollapsedWithoutBackslash ==
    (TextReturned /\ Len(ParagraphBefore) >= 1 /\ NoBackslash) =>
        (~ret.error /\ Collapsed /\ SingledOutCases)
====
